---- MODULE Spec2Model ----
(***************************************************************************)
(* A model of the web-scraping pipeline of tnypxl/rollup: the concurrent   *)
(* ScrapeSites orchestration (internal/scraper), its depth-aware variant   *)
(* with a visited set and link following, the recursive crawler of cmd/web,*)
(* the shared token-bucket limiter, the write phase (SaveToFiles), the     *)
(* override resolution (getOverrides) and the start of the program (main). *)
(*                                                                         *)
(* Strings that the code inspects (URL paths) are sequences of             *)
(* one-character strings, so that strings.HasPrefix and string             *)
(* concatenation are computed and not assumed.  A URL string is the record *)
(* url.Parse makes of it: [host, path].                                    *)
(***************************************************************************)
EXTENDS Integers, Sequences, FiniteSets, TLC

VARIABLES
    world,          \* the inputs of the run: Config (Sites, Scrape) and the web (links on each page)
    procs,          \* the goroutines that run scrapeSingleURL: one per site, then one per `go scrapeSingleURL`
    visited,        \* per site goroutine: the map visited[url]
    wg,             \* sync.WaitGroup counter
    closed,         \* close(results) has been executed
    mainPc,         \* the collecting loop of ScrapeSites: "collect" | "returned"
    scrapedContent, \* map url -> content built by the collecting loop
    lim,            \* the rate.Limiter of the run, and the clock it reads
    fetches,        \* history: how often each [site, url, depth] was handed to FetchWebpageContent
    received,       \* history: how often each result was taken from the results channel
    panicked,       \* the Go runtime ended the process ("" when it did not)
    rec,            \* the recursive crawler of cmd/web.go: call stack, visited map, page loads
    ctx,            \* the caller's cancellation request (timeout or interrupt): "live" | "cancelled"
    output,         \* the files of the output directory and the error handed back to the caller
    call,           \* one call of a function without side effects: its arguments and what it returned
    app             \* the program from main on: configuration file, browser, exit status

vars == <<world, procs, visited, wg, closed, mainPc, scrapedContent, lim,
          fetches, received, panicked, rec, ctx, output, call, app>>

----------------------------------------------------------------------------
(* Bounds of the model *)

\* at most this many `go scrapeSingleURL` goroutines are started in one run
MaxTasks == 4

\* the clock of the limiter specification stops after this many half seconds
MaxTicks == 5

\* concurrent callers of acquire in the limiter specification
NumCallers == 5

----------------------------------------------------------------------------
(* Strings, URLs, bags *)

\* strings.HasPrefix(s, p)
HasPrefix(s, p) == Len(p) <= Len(s) /\ SubSeq(s, 1, Len(p)) = p

URL(h, p) == [host |-> h, path |-> p]

NoURL == URL("", <<>>)

\* site.BaseURL + path
Concat(base, path) == URL(base.host, base.path \o path)

PathA   == <<"/", "a">>
PathAB  == <<"/", "a", "b">>
PathB   == <<"/", "b">>

EmptyBag == [e \in {} |-> 0]

BagCount(b, e) == IF e \in DOMAIN b THEN b[e] ELSE 0

BagAdd(b, e) == [x \in DOMAIN b \cup {e} |-> IF x = e THEN BagCount(b, e) + 1 ELSE b[x]]

RECURSIVE SumOver(_, _)
SumOver(b, S) == IF S = {} THEN 0
                 ELSE LET e == CHOOSE x \in S : TRUE
                      IN  b[e] + SumOver(b, S \ {e})

BagSize(b) == SumOver(b, DOMAIN b)

----------------------------------------------------------------------------
(* Configuration *)

Absent == -1

\* the rate-limit settings of rollup.yml: each is absent or a positive number
\* (Validate rejects a value that is present and not positive)
RawScrape == { [RequestsPerSecond |-> Absent, BurstLimit |-> Absent],
               [RequestsPerSecond |-> 2, BurstLimit |-> 1],
               [RequestsPerSecond |-> 2, BurstLimit |-> 2] }

defaultRequestsPerSecond == 1

defaultBurstLimit == 3

\* runWeb of cmd/web.go: the defaults are used for what the configuration leaves out
runWebScrape(cfg) ==
    [RequestsPerSecond |-> IF cfg.RequestsPerSecond # Absent THEN cfg.RequestsPerSecond
                           ELSE defaultRequestsPerSecond,
     BurstLimit        |-> IF cfg.BurstLimit # Absent THEN cfg.BurstLimit
                           ELSE defaultBurstLimit]

\* runWeb of the variant that copies cfg.Scrape.RequestsPerSecond and
\* cfg.Scrape.BurstLimit as they are: a setting left out is Go's zero value
runWebScrapeRaw(cfg) ==
    [RequestsPerSecond |-> IF cfg.RequestsPerSecond # Absent THEN cfg.RequestsPerSecond ELSE 0,
     BurstLimit        |-> IF cfg.BurstLimit # Absent THEN cfg.BurstLimit ELSE 0]

Site(base, allowed, exclude, maxDepth, lcs) ==
    [BaseURL |-> base, AllowedPaths |-> allowed, ExcludePaths |-> exclude,
     MaxDepth |-> maxDepth, LinksContainerSelector |-> lcs, FileNamePrefix |-> <<>>]

\* the site with file_name_prefix set
WithPrefix(site, prefix) == [site EXCEPT !.FileNamePrefix = prefix]

BaseX == URL("x", <<>>)
BaseY == URL("y", <<>>)

\* a base URL whose host name has a hyphen in it
BaseXY == URL("x-y", <<>>)

\* the characters of a host name
HostChars(h) == IF h = "x-y" THEN <<"x", "-", "y">> ELSE <<h>>

NoLinks == [u \in {} |-> <<>>]

\* the hrefs inside the links container of the page at u, in document order
LinksOn(u) == IF u \in DOMAIN world.links THEN world.links[u] ELSE <<>>

NumSites == Len(world.sites)

SiteOf(p) == world.sites[procs[p].site]

----------------------------------------------------------------------------
(* The limiter: rate.NewLimiter(rate.Limit(rps), burst), lim.Wait(ctx).    *)
(* Time is counted in half seconds and tokens in half tokens, so that the  *)
(* rates 1/s and 2/s refill 1 and 2 half tokens per tick.                  *)

\* the slip of handing the two settings to rate.NewLimiter in the wrong order
NewLimiterSwapped(scrape) ==
    [rate |-> scrape.BurstLimit, burst |-> scrape.RequestsPerSecond,
     tokens2 |-> 2 * scrape.RequestsPerSecond, granted |-> 0, now |-> 0, done |-> <<>>]

NewLimiter(scrape) ==
    [rate |-> scrape.RequestsPerSecond, burst |-> scrape.BurstLimit,
     tokens2 |-> 2 * scrape.BurstLimit, granted |-> 0, now |-> 0, done |-> <<>>]

Min(a, b) == IF a < b THEN a ELSE b

\* tokens accumulate at the sustained rate, up to the burst capacity
Refilled(l) == [l EXCEPT !.tokens2 = Min(2 * l.burst, l.tokens2 + l.rate)]

\* Wait(ctx) with a context that is never cancelled:
\* "err" when one token exceeds the burst, "ok" when a token is there, "block" otherwise
WaitOutcome(l) ==
    IF l.burst < 1 THEN "err"
    ELSE IF l.tokens2 >= 2 THEN "ok"
    ELSE "block"

\* the limiter after a granted Wait
Granted(l) == [l EXCEPT !.tokens2 = l.tokens2 - 2, !.granted = l.granted + 1,
                         !.done = Append(l.done, l.now)]

\* time passes in a crawl: the bucket refills (the clock is not observed there)
LimiterRefill ==
    /\ panicked = ""
    /\ lim.rate > 0
    /\ lim.tokens2 < 2 * lim.burst
    /\ lim' = Refilled(lim)
    /\ UNCHANGED <<world, procs, visited, wg, closed, mainPc, scrapedContent,
                   fetches, received, panicked, rec, ctx, output, call, app>>

----------------------------------------------------------------------------
(* Results and the collecting loop, shared by the variants of ScrapeSites  *)

Result(u, c, e) == [url |-> u, content |-> c, err |-> e]

NoResult == Result(NoURL, <<>>, "")

\* what FetchWebpageContent and the extraction make of a page: the content,
\* or the error of the step that failed
PageOutcomes == {"", "fetch", "extract"}

\* a page's content is a text the model does not look into, one per URL
ContentOf(u) == <<u>>

\* nothing written, no error returned
NoOutput == [files |-> [f \in {} |-> <<>>], err |-> "", pc |-> "scraping", type |-> ""]

NoCall == [fn |-> ""]

NoApp == [pc |-> ""]

NoRec == [stack |-> <<>>, visited |-> {}, loads |-> 0, extracted |-> EmptyBag, linked |-> {}, err |-> ""]

\* for result := range results { if result.err != nil { continue }; scrapedContent[result.url] = ... }
\* (the content and the site it came from; the depth-aware variant keeps the content alone)
Collect(sc, r, s) ==
    IF r.err # "" THEN sc
    ELSE [u \in DOMAIN sc \cup {r.url} |->
            IF u = r.url THEN [content |-> r.content, site |-> s] ELSE sc[u]]

----------------------------------------------------------------------------
(* ScrapeSites of internal/scraper/scraper.go: one goroutine per site runs *)
(* scrapeSingleURL for base URL + each allowed path, one after the other.  *)

Proc(kind, s, u, d) ==
    [kind |-> kind, site |-> s, idx |-> 1, pc |-> IF kind = "site" THEN "loop" ELSE "check",
     url |-> u, depth |-> d, li |-> 1, res |-> NoResult]

FlatSites == { Site(BaseX, <<PathA, PathB>>, <<>>, 0, ""),
               Site(BaseX, <<PathA, PathA>>, <<>>, 0, ""),
               Site(BaseY, <<PathA>>, <<>>, 0, ""),
               Site(BaseY, <<>>, <<>>, 0, ""),
               WithPrefix(Site(BaseY, <<PathA>>, <<>>, 0, ""), <<"p">>),
               WithPrefix(Site(BaseXY, <<PathA>>, <<>>, 0, ""), <<"p">>) }

FlatWorlds ==
    { [sites |-> ss, links |-> NoLinks, scrape |-> runWebScrape(raw)] :
        ss \in {<<a>> : a \in FlatSites} \cup {<<a, b>> : a \in FlatSites, b \in FlatSites},
        raw \in RawScrape }

\* the state ScrapeSites is in when its collecting loop starts: every site
\* goroutine and the closing goroutine have been started
Started(w) ==
    /\ world = w
    /\ procs = [s \in 1..Len(w.sites) |-> Proc("site", s, NoURL, 0)]
    /\ visited = [s \in 1..Len(w.sites) |-> {}]
    /\ wg = Len(w.sites)
    /\ closed = FALSE
    /\ mainPc = "collect"
    /\ scrapedContent = [u \in {} |-> ""]
    /\ lim = NewLimiter(w.scrape)
    /\ fetches = EmptyBag
    /\ received = EmptyBag
    /\ panicked = ""
    /\ rec = NoRec
    /\ ctx = "live"
    /\ output = NoOutput
    /\ call = NoCall
    /\ app = NoApp

InitFlat == \E w \in FlatWorlds : Started(w)

\* the slip of ending the site's loop when a URL failed
ReturnedAbortingOnError(pr) ==
    IF pr.kind = "site"
    THEN [pr EXCEPT !.pc = "loop", !.res = NoResult,
                    !.idx = IF pr.res.err # "" THEN Len(world.sites[pr.site].AllowedPaths) + 1
                            ELSE pr.idx + 1]
    ELSE [pr EXCEPT !.pc = "exit", !.res = NoResult]

\* scrapeSingleURL has returned in goroutine pr: the site goroutine goes on
\* with its next allowed path, a goroutine started for a link ends
Returned(pr) ==
    IF pr.kind = "site"
    THEN [pr EXCEPT !.pc = "loop", !.idx = pr.idx + 1, !.res = NoResult]
    ELSE [pr EXCEPT !.pc = "exit", !.res = NoResult]

\* for _, path := range site.AllowedPaths { scrapeSingleURL(site.BaseURL + path, ...) }; wg.Done()
ScrapeSitesLoop(p) ==
    /\ panicked = ""
    /\ procs[p].kind = "site" /\ procs[p].pc = "loop"
    /\ IF procs[p].idx <= Len(SiteOf(p).AllowedPaths)
       THEN /\ procs' = [procs EXCEPT ![p].url = Concat(SiteOf(p).BaseURL,
                                                        SiteOf(p).AllowedPaths[procs[p].idx]),
                                      ![p].pc = "wait"]
            /\ wg' = wg
       ELSE /\ procs' = [procs EXCEPT ![p].pc = "exit"]
            /\ wg' = wg - 1
    /\ UNCHANGED <<world, visited, closed, mainPc, scrapedContent, lim,
                   fetches, received, panicked, rec, ctx, output, call, app>>

\* err := limiter.Wait(context.Background()); on an error the result carries it
scrapeSingleURLWait(p) ==
    /\ panicked = ""
    /\ procs[p].pc = "wait"
    /\ WaitOutcome(lim) # "block"
    /\ IF WaitOutcome(lim) = "ok"
       THEN /\ lim' = Granted(lim)
            /\ procs' = [procs EXCEPT ![p].pc = "fetch"]
       ELSE /\ lim' = lim
            /\ procs' = [procs EXCEPT ![p].pc = "send",
                                      ![p].res = Result(procs[p].url, <<>>, "rate")]
    /\ UNCHANGED <<world, visited, wg, closed, mainPc, scrapedContent,
                   fetches, received, panicked, rec, ctx, output, call, app>>

\* content, err := scrapeURL(url, cssLocator, excludeSelectors): the page is
\* fetched, and the result is the content or the error
scrapeSingleURLFetch(p) ==
    /\ panicked = ""
    /\ procs[p].pc = "fetch"
    /\ \E out \in PageOutcomes :
         procs' = [procs EXCEPT ![p].pc = "send",
                                ![p].res = IF out = ""
                                           THEN Result(procs[p].url, ContentOf(procs[p].url), "")
                                           ELSE Result(procs[p].url, <<>>, out)]
    /\ fetches' = BagAdd(fetches, [site |-> procs[p].site, url |-> procs[p].url,
                                   depth |-> procs[p].depth])
    /\ UNCHANGED <<world, visited, wg, closed, mainPc, scrapedContent, lim,
                   received, panicked, rec, ctx, output, call, app>>

\* results <- r meets `for result := range results`: the channel has no
\* buffer, so the send returns when the collecting loop takes the value
Deliver(p) ==
    /\ panicked = ""
    /\ procs[p].pc = "send"
    /\ mainPc = "collect" /\ ~closed
    /\ scrapedContent' = Collect(scrapedContent, procs[p].res, procs[p].site)
    /\ received' = BagAdd(received, [site |-> procs[p].site, url |-> procs[p].res.url,
                                     err |-> procs[p].res.err])
    /\ procs' = [procs EXCEPT ![p] = Returned(procs[p])]
    /\ UNCHANGED <<world, visited, wg, closed, mainPc, lim, fetches, panicked, rec,
                   ctx, output, call, app>>

\* go func() { wg.Wait(); close(results) }()
CloseResults ==
    /\ panicked = ""
    /\ wg = 0 /\ ~closed
    /\ closed' = TRUE
    /\ UNCHANGED <<world, procs, visited, wg, mainPc, scrapedContent, lim,
                   fetches, received, panicked, rec, ctx, output, call, app>>

\* the range loop ends when the channel is closed; ScrapeSites returns
CollectDone ==
    /\ panicked = ""
    /\ mainPc = "collect" /\ closed
    /\ mainPc' = "returned"
    /\ UNCHANGED <<world, procs, visited, wg, closed, scrapedContent, lim,
                   fetches, received, panicked, rec, ctx, output, call, app>>

----------------------------------------------------------------------------
(* SaveToFiles(content, config): the write phase.  A file name and a text  *)
(* are sequences of characters; the host of a URL and the content of one   *)
(* page stand as single characters.  The file system does not fail.        *)

\* strings.Trim(s, c) for a cutset of the one character c
RECURSIVE TrimLeft(_, _)
TrimLeft(s, c) == IF s # <<>> /\ Head(s) = c THEN TrimLeft(Tail(s), c) ELSE s

RECURSIVE TrimRight(_, _)
TrimRight(s, c) == IF s # <<>> /\ s[Len(s)] = c THEN TrimRight(SubSeq(s, 1, Len(s) - 1), c) ELSE s

Trim(s, c) == TrimRight(TrimLeft(s, c), c)

\* the characters of the model that [^a-zA-Z0-9] matches
NonAlnum == {"/", "-", ".", "_"}

\* s without its longest prefix of characters of cs
RECURSIVE DropWhile(_, _)
DropWhile(s, cs) == IF s # <<>> /\ Head(s) \in cs THEN DropWhile(Tail(s), cs) ELSE s

\* regexp.MustCompile(re + "+").ReplaceAllString(s, "-"), re matching the characters of cs
RECURSIVE ReplaceRuns(_, _)
ReplaceRuns(s, cs) ==
    IF s = <<>> THEN <<>>
    ELSE IF Head(s) \in cs THEN <<"-">> \o ReplaceRuns(DropWhile(s, cs), cs)
    ELSE <<Head(s)>> \o ReplaceRuns(Tail(s), cs)

NormalizePathForFilename(urlPath) ==
    ReplaceRuns(Trim(ReplaceRuns(Trim(urlPath, "/"), NonAlnum), "-"), {"-"})

\* the first allowed path of the site that is a prefix of the path of the
\* URL, <<>> when there is none
RECURSIVE matchingPathFrom(_, _, _)
matchingPathFrom(u, site, i) ==
    IF i > Len(site.AllowedPaths) THEN <<>>
    ELSE IF HasPrefix(u.path, site.AllowedPaths[i]) THEN site.AllowedPaths[i]
    ELSE matchingPathFrom(u, site, i + 1)

\* fmt.Sprintf("%s-%s", data.site.BaseURL, data.site.FileNamePrefix)
siteKey(site) == HostChars(site.BaseURL.host) \o site.BaseURL.path \o <<"-">> \o site.FileNamePrefix

\* strings.SplitN(siteKey, "-", 2)[1]
RECURSIVE AfterFirstDash(_)
AfterFirstDash(k) == IF Head(k) = "-" THEN Tail(k) ELSE AfterFirstDash(Tail(k))

\* filepath.Join("output", fmt.Sprintf("%s-%s.md", prefix, normalizedPath))
fileNameOf(g) ==
    LET parts1 == AfterFirstDash(g.key)
        prefix == IF parts1 = <<>> THEN <<"d", "o", "c">> ELSE parts1
        np     == NormalizePathForFilename(g.path)
    IN  prefix \o <<"-">> \o (IF np = <<>> THEN <<"i", "n", "d", "e", "x">> ELSE np) \o <<".md">>

\* the orders in which a range loop may go through the keys S of a map
Orders(S) == {o \in [1..Cardinality(S) -> S] : \A i, j \in DOMAIN o : o[i] = o[j] => i = j}

\* the entry of contentBySitePath a URL is added to
groupOf(content, sites, u) ==
    [key |-> siteKey(sites[content[u].site]), path |-> matchingPathFrom(u, sites[content[u].site], 1)]

\* the URLs that have a matching allowed path; the others are skipped with a warning
grouped(content, sites) == {u \in DOMAIN content : groupOf(content, sites, u).path # <<>>}

\* contentBySitePath[siteKey][matchingPath] after the first loop went through the URLs in order o
RECURSIVE groupContent(_, _, _, _, _)
groupContent(content, sites, g, o, i) ==
    IF i > Len(o) THEN <<>>
    ELSE (IF o[i] \in grouped(content, sites) /\ groupOf(content, sites, o[i]) = g
          THEN content[o[i]].content ELSE <<>>)
         \o groupContent(content, sites, g, o, i + 1)

\* the second loop: os.WriteFile for the groups in order go, from the i-th on;
\* a later write to the same name replaces the file
RECURSIVE writeGroups(_, _, _, _, _, _)
writeGroups(files, content, sites, o, go, i) ==
    IF i > Len(go) THEN files
    ELSE LET text == groupContent(content, sites, go[i], o, 1)
         IN  writeGroups(IF text = <<>> THEN files
                         ELSE (fileNameOf(go[i]) :> text) @@ files,
                         content, sites, o, go, i + 1)

\* the outer loop is over the site keys and the inner one over the paths of a key
nested(go) == \A i, j, k \in DOMAIN go : (i < j /\ j < k /\ go[i].key = go[k].key) => go[j].key = go[i].key

\* "## url\n\ncontent\n\n" for the URLs in order o
combined(content, o) == [i \in DOMAIN o |-> [url |-> o[i], content |-> content[o[i]].content]]

OutputTypes == {"single", "separate", "", "other"}

\* what SaveToFiles may leave behind: the files, and the error it returns
SaveToFiles(content, sites, outputType) ==
    IF outputType = "single"
    THEN { [files |-> (<<"combined.md">> :> combined(content, o)), err |-> "", pc |-> "saved",
             type |-> outputType] :
             o \in Orders(DOMAIN content) }
    ELSE IF outputType \in {"separate", ""}
    THEN { [files |-> writeGroups([f \in {} |-> <<>>], content, sites, o, go, 1),
            err |-> "", pc |-> "saved", type |-> outputType] :
             o \in Orders(DOMAIN content),
             go \in {x \in Orders({groupOf(content, sites, u) : u \in grouped(content, sites)}) : nested(x)} }
    ELSE { [files |-> [f \in {} |-> <<>>], err |-> "unsupported output type", pc |-> "saved",
             type |-> outputType] }

\* the range loop ends when the channel is closed, and
\* return SaveToFiles(scrapedContent, config)
ScrapeSitesReturn ==
    /\ panicked = ""
    /\ mainPc = "collect" /\ closed
    /\ mainPc' = "returned"
    /\ \E ot \in OutputTypes : output' \in SaveToFiles(scrapedContent, world.sites, ot)
    /\ UNCHANGED <<world, procs, visited, wg, closed, scrapedContent, lim,
                   fetches, received, panicked, rec, ctx, call, app>>

\* the caller gives up (a timeout expires, the user interrupts).  ScrapeSites
\* takes no context and scrapeSingleURL hands context.Background() to
\* limiter.Wait, so no step of the crawl reads ctx
Cancel ==
    /\ panicked = ""
    /\ mainPc = "collect"
    /\ ctx = "live"
    /\ ctx' = "cancelled"
    /\ UNCHANGED <<world, procs, visited, wg, closed, mainPc, scrapedContent, lim,
                   fetches, received, panicked, rec, output, call, app>>

NextFlat ==
    \/ \E p \in DOMAIN procs : ScrapeSitesLoop(p)
    \/ \E p \in DOMAIN procs : scrapeSingleURLWait(p)
    \/ \E p \in DOMAIN procs : scrapeSingleURLFetch(p)
    \/ \E p \in DOMAIN procs : Deliver(p)
    \/ CloseResults
    \/ ScrapeSitesReturn
    \/ LimiterRefill
    \/ Cancel

SpecFlat == InitFlat /\ [][NextFlat]_vars

----------------------------------------------------------------------------
(* ScrapeSites and scrapeSingleURL of the depth-aware variant: a visited   *)
(* map per site goroutine, and `go scrapeSingleURL` for every allowed link *)
(* found in the links container of a fetched page.                         *)

PathASlash == <<"/", "a", "/">>

Href(h, p) == [host |-> h, path |-> p]

\* resolveURL(href, base): parsedBase.ResolveReference(parsedHref); an href
\* without a host is an absolute path on the host of the page
resolveURL(href, base) ==
    IF href.host = "" THEN URL(base.host, href.path) ELSE URL(href.host, href.path)

\* isAllowedURL(urlStr, site): same host, inside an allowed path when any is
\* declared, outside every excluded path
isAllowedURL(u, site) ==
    /\ u.host = site.BaseURL.host
    /\ \/ Len(site.AllowedPaths) = 0
       \/ \E i \in DOMAIN site.AllowedPaths : HasPrefix(u.path, site.AllowedPaths[i])
    /\ \A i \in DOMAIN site.ExcludePaths : ~HasPrefix(u.path, site.ExcludePaths[i])

CrawlSetups ==
    { \* one page whose links container names the same page twice
      [sites |-> <<Site(BaseX, <<PathA>>, <<>>, 0, ".nav")>>,
       links |-> (URL("x", PathA) :> <<Href("", PathAB), Href("x", PathAB)>>)],
      \* the same allowed path listed twice, no link following
      [sites |-> <<Site(BaseX, <<PathA, PathB, PathA>>, <<>>, 0, "")>>,
       links |-> NoLinks],
      \* links that leave the host, the allowed paths, or enter an excluded path
      [sites |-> <<Site(BaseX, <<PathA>>, <<PathAB>>, 1, ".nav")>>,
       links |-> (URL("x", PathA) :> <<Href("", PathAB), Href("y", PathA),
                                       Href("", PathB), Href("", PathASlash)>>)
                 @@ (URL("x", PathASlash) :> <<Href("", PathA \o PathA)>>)],
      \* an allowed path that lies inside an excluded path
      [sites |-> <<Site(BaseX, <<PathAB>>, <<PathA>>, 0, "")>>,
       links |-> NoLinks],
      \* two sites, one of them following links
      [sites |-> <<Site(BaseX, <<PathA>>, <<>>, 0, ""),
                   Site(BaseY, <<PathA>>, <<>>, 2, ".nav")>>,
       links |-> (URL("y", PathA) :> <<Href("", PathAB)>>)
                 @@ (URL("y", PathAB) :> <<Href("", PathA)>>)] }

CrawlWorlds ==
    { [sites |-> c.sites, links |-> c.links, scrape |-> sc] :
        c \in CrawlSetups,
        sc \in {runWebScrape(raw) : raw \in RawScrape} \cup {runWebScrapeRaw(raw) : raw \in RawScrape} }

InitCrawl == \E w \in CrawlWorlds : Started(w)

Spawned == Len(procs) - NumSites

\* for _, path := range site.AllowedPaths { scrapeSingleURL(fullURL, site, results, limiter, visited, 0) }
ScrapeSitesLoopD(p) ==
    /\ panicked = ""
    /\ procs[p].kind = "site" /\ procs[p].pc = "loop"
    /\ IF procs[p].idx <= Len(SiteOf(p).AllowedPaths)
       THEN /\ procs' = [procs EXCEPT ![p].url = Concat(SiteOf(p).BaseURL,
                                                        SiteOf(p).AllowedPaths[procs[p].idx]),
                                      ![p].depth = 0,
                                      ![p].pc = "check"]
            /\ wg' = wg
       ELSE /\ procs' = [procs EXCEPT ![p].pc = "exit"]
            /\ wg' = wg - 1
    /\ UNCHANGED <<world, visited, closed, mainPc, scrapedContent, lim,
                   fetches, received, panicked, rec, ctx, output, call, app>>

\* the slip of letting one more level through
DepthExceededLate(site, currentDepth) == site.MaxDepth > 0 /\ currentDepth > site.MaxDepth + 1

\* if site.MaxDepth > 0 && currentDepth > site.MaxDepth { return }
DepthExceeded(site, currentDepth) == site.MaxDepth > 0 /\ currentDepth > site.MaxDepth

\* the depth test and the read of visited[url]
scrapeSingleURLCheck(p) ==
    /\ panicked = ""
    /\ procs[p].pc = "check"
    /\ procs' = [procs EXCEPT ![p] =
                    IF DepthExceeded(SiteOf(p), procs[p].depth) \/ procs[p].url \in visited[procs[p].site]
                    THEN Returned(procs[p])
                    ELSE [procs[p] EXCEPT !.pc = "mark"]]
    /\ UNCHANGED <<world, visited, wg, closed, mainPc, scrapedContent, lim,
                   fetches, received, panicked, rec, ctx, output, call, app>>

\* visited[url] = true
scrapeSingleURLMark(p) ==
    /\ panicked = ""
    /\ procs[p].pc = "mark"
    /\ visited' = [visited EXCEPT ![procs[p].site] = @ \cup {procs[p].url}]
    /\ procs' = [procs EXCEPT ![p].pc = "wait"]
    /\ UNCHANGED <<world, wg, closed, mainPc, scrapedContent, lim,
                   fetches, received, panicked, rec, ctx, output, call, app>>

\* what a fetched page leads to: an error result, the walk over the links
\* container (which sends nothing), or the extracted content
AfterFetch(pr, site, out) ==
    IF out \in {"fetch", "parse"}
    THEN [pr EXCEPT !.pc = "send", !.res = Result(pr.url, <<>>, out)]
    ELSE IF site.LinksContainerSelector # ""
    THEN [pr EXCEPT !.pc = "links", !.li = 1]
    ELSE IF out = "extract"
    THEN [pr EXCEPT !.pc = "send", !.res = Result(pr.url, <<>>, out)]
    ELSE [pr EXCEPT !.pc = "send", !.res = Result(pr.url, ContentOf(pr.url), "")]

\* FetchWebpageContent(url), goquery.NewDocumentFromReader, then the links
\* container or ExtractContentWithCSS
scrapeSingleURLFetchD(p) ==
    /\ panicked = ""
    /\ procs[p].pc = "fetch"
    /\ \E out \in PageOutcomes \cup {"parse"} :
         procs' = [procs EXCEPT ![p] = AfterFetch(procs[p], SiteOf(p), out)]
    /\ fetches' = BagAdd(fetches, [site |-> procs[p].site, url |-> procs[p].url,
                                   depth |-> procs[p].depth])
    /\ UNCHANGED <<world, visited, wg, closed, mainPc, scrapedContent, lim,
                   received, panicked, rec, ctx, output, call, app>>

\* if isAllowedURL(resolvedURL, site) && !visited[resolvedURL]
Dispatches(site, vis, resolved) == isAllowedURL(resolved, site) /\ resolved \notin vis

\* one href of the links container: go scrapeSingleURL(resolvedURL, ..., currentDepth+1);
\* after the last one scrapeSingleURL returns
scrapeSingleURLLink(p) ==
    /\ panicked = ""
    /\ procs[p].pc = "links"
    /\ LET pr   == procs[p]
           hs   == LinksOn(pr.url)
           res  == resolveURL(hs[pr.li], pr.url)
       IN  IF pr.li > Len(hs)
           THEN procs' = [procs EXCEPT ![p] = Returned(pr)]
           ELSE IF Dispatches(SiteOf(p), visited[pr.site], res)
           THEN /\ Spawned < MaxTasks
                /\ procs' = Append([procs EXCEPT ![p].li = pr.li + 1],
                                   Proc("task", pr.site, res, pr.depth + 1))
           ELSE procs' = [procs EXCEPT ![p].li = pr.li + 1]
    /\ UNCHANGED <<world, visited, wg, closed, mainPc, scrapedContent, lim,
                   fetches, received, panicked, rec, ctx, output, call, app>>

\* results <- r after close(results): the runtime panics
SendOnClosed(p) ==
    /\ panicked = ""
    /\ procs[p].pc = "send"
    /\ closed
    /\ panicked' = "send on closed channel"
    /\ UNCHANGED <<world, procs, visited, wg, closed, mainPc, scrapedContent, lim,
                   fetches, received, rec, ctx, output, call, app>>

\* goroutine p is about to read or write the visited map of its site
ReadsVisited(p) ==
    \/ procs[p].pc = "check" /\ ~DepthExceeded(SiteOf(p), procs[p].depth)
    \/ /\ procs[p].pc = "links"
       /\ procs[p].li <= Len(LinksOn(procs[p].url))
       /\ isAllowedURL(resolveURL(LinksOn(procs[p].url)[procs[p].li], procs[p].url), SiteOf(p))

\* the map is not synchronised: a write that overlaps another goroutine's
\* access is a data race, which the runtime may detect and end the process
\* ("concurrent map writes", "concurrent map read and map write")
MapFault(p, q) ==
    /\ panicked = ""
    /\ p # q
    /\ procs[p].site = procs[q].site
    /\ procs[p].pc = "mark"
    /\ procs[q].pc = "mark" \/ ReadsVisited(q)
    /\ panicked' = IF procs[q].pc = "mark" THEN "concurrent map writes"
                   ELSE "concurrent map read and map write"
    /\ UNCHANGED <<world, procs, visited, wg, closed, mainPc, scrapedContent, lim,
                   fetches, received, rec, ctx, output, call, app>>

NextCrawl ==
    \/ \E p \in DOMAIN procs : ScrapeSitesLoopD(p)
    \/ \E p \in DOMAIN procs : scrapeSingleURLCheck(p)
    \/ \E p \in DOMAIN procs : scrapeSingleURLMark(p)
    \/ \E p \in DOMAIN procs : scrapeSingleURLWait(p)
    \/ \E p \in DOMAIN procs : scrapeSingleURLFetchD(p)
    \/ \E p \in DOMAIN procs : scrapeSingleURLLink(p)
    \/ \E p \in DOMAIN procs : Deliver(p)
    \/ \E p \in DOMAIN procs : SendOnClosed(p)
    \/ \E p, q \in DOMAIN procs : MapFault(p, q)
    \/ CloseResults
    \/ CollectDone
    \/ LimiterRefill

SpecCrawl == InitCrawl /\ [][NextCrawl]_vars

----------------------------------------------------------------------------
(* The recursive crawler of cmd/web.go: scrapeRecursively(urlStr, depth)   *)
(* calls scrapeURL(urlStr, depth, visited), which calls itself for every   *)
(* link of the page.  No limiter is involved.                              *)

UrlA == URL("x", PathA)
UrlB == URL("x", PathAB)
UrlC == URL("x", PathB)
UrlD == URL("y", PathA)

\* the links ExtractLinks may report for a page
LinkLists == { <<>>, <<UrlB>>, <<UrlB, UrlC>>, <<UrlC, UrlB>>, <<UrlC>>, <<UrlD>>, <<UrlA, UrlD>> }

\* the deepest --depth the model tries
MaxRecDepth == 2

RecWorlds ==
    { [sites |-> <<>>, scrape |-> runWebScrape(raw),
       links |-> (UrlA :> la) @@ (UrlB :> lb) @@ (UrlC :> lc),
       seed |-> UrlA, depth |-> d] :
        la \in LinkLists \ {<<>>}, lb \in LinkLists, lc \in {<<>>, <<UrlD>>, <<UrlB>>},
        d \in 0..MaxRecDepth,
        raw \in {[RequestsPerSecond |-> Absent, BurstLimit |-> Absent]} }

Frame(u, d) == [url |-> u, depth |-> d, pc |-> "enter", li |-> 1]

\* scrapeRecursively: visited := make(map[string]bool); scrapeURL(urlStr, depth, visited)
InitRec ==
    \E w \in RecWorlds :
      /\ world = w
      /\ procs = <<>>
      /\ visited = <<>>
      /\ wg = 0
      /\ closed = FALSE
      /\ mainPc = "recursive"
      /\ scrapedContent = [u \in {} |-> ""]
      /\ lim = NewLimiter(w.scrape)
      /\ fetches = EmptyBag
      /\ received = EmptyBag
      /\ panicked = ""
      /\ rec = [stack |-> <<Frame(w.seed, w.depth)>>, visited |-> {}, loads |-> 0,
                extracted |-> EmptyBag, linked |-> {}, failed |-> {}, err |-> ""]
      /\ ctx = "live"
      /\ output = NoOutput
      /\ call = NoCall
      /\ app = NoApp

Top == rec.stack[Len(rec.stack)]

Pop(st) == SubSeq(st, 1, Len(st) - 1)

\* the error a returning call hands to its caller: the loop over the links
\* prints a warning and goes on, scrapeRecursively returns it
ErrAfterReturn(st, e) == IF Len(st) = 1 THEN e ELSE ""

\* if depth < 0 || visited[urlStr] { return "", nil }; visited[urlStr] = true;
\* content, err := extractAndConvertContent(urlStr)
scrapeURLEnter ==
    /\ rec.stack # <<>> /\ Top.pc = "enter"
    /\ IF Top.depth < 0 \/ Top.url \in rec.visited
       THEN rec' = [rec EXCEPT !.stack = Pop(rec.stack)]
       ELSE \E out \in {"", "fetch"} :
              rec' = [rec EXCEPT
                        !.visited = @ \cup {Top.url},
                        !.loads = @ + 1,
                        !.extracted = BagAdd(@, [url |-> Top.url, hops |-> world.depth - Top.depth]),
                        !.failed = IF out = "" THEN @ ELSE @ \cup {Top.url},
                        !.err = IF out = "" THEN @ ELSE ErrAfterReturn(rec.stack, out),
                        !.stack = IF out # "" THEN Pop(rec.stack)
                                  ELSE IF Top.depth > 0
                                  THEN [rec.stack EXCEPT ![Len(rec.stack)].pc = "links"]
                                  ELSE Pop(rec.stack)]
    /\ UNCHANGED <<world, procs, visited, wg, closed, mainPc, scrapedContent, lim,
                   fetches, received, panicked, ctx, output, call, app>>

\* links, err := testExtractLinks(urlStr): the page is loaded once more
scrapeURLExtractLinks ==
    /\ rec.stack # <<>> /\ Top.pc = "links"
    /\ \E out \in {"", "links"} :
         rec' = [rec EXCEPT
                   !.loads = @ + 1,
                   !.linked = @ \cup {Top.url},
                   !.failed = IF out = "" THEN @ ELSE @ \cup {Top.url},
                   !.err = IF out = "" THEN @ ELSE ErrAfterReturn(rec.stack, out),
                   !.stack = IF out # "" THEN Pop(rec.stack)
                             ELSE [rec.stack EXCEPT ![Len(rec.stack)].pc = "loop"]]
    /\ UNCHANGED <<world, procs, visited, wg, closed, mainPc, scrapedContent, lim,
                   fetches, received, panicked, ctx, output, call, app>>

\* the slip of following the links with the depth of the page they are on
scrapeURLLoopSameDepth ==
    /\ rec.stack # <<>> /\ Top.pc = "loop"
    /\ IF Top.li > Len(LinksOn(Top.url))
       THEN rec' = [rec EXCEPT !.stack = Pop(rec.stack)]
       ELSE rec' = [rec EXCEPT !.stack =
                       Append([rec.stack EXCEPT ![Len(rec.stack)].li = Top.li + 1],
                              Frame(LinksOn(Top.url)[Top.li], Top.depth))]
    /\ UNCHANGED <<world, procs, visited, wg, closed, mainPc, scrapedContent, lim,
                   fetches, received, panicked, ctx, output, call, app>>

\* for _, link := range links { subContent, err := scrapeURL(link, depth-1, visited) ... }
scrapeURLLoop ==
    /\ rec.stack # <<>> /\ Top.pc = "loop"
    /\ IF Top.li > Len(LinksOn(Top.url))
       THEN rec' = [rec EXCEPT !.stack = Pop(rec.stack)]
       ELSE rec' = [rec EXCEPT !.stack =
                       Append([rec.stack EXCEPT ![Len(rec.stack)].li = Top.li + 1],
                              Frame(LinksOn(Top.url)[Top.li], Top.depth - 1))]
    /\ UNCHANGED <<world, procs, visited, wg, closed, mainPc, scrapedContent, lim,
                   fetches, received, panicked, ctx, output, call, app>>

NextRec == scrapeURLEnter \/ scrapeURLExtractLinks \/ scrapeURLLoop

SpecRec == InitRec /\ [][NextRec]_vars

----------------------------------------------------------------------------
(* The limiter alone: the callers of one run's limiter wait at the same    *)
(* time, and the clock advances in half seconds.                           *)

LimiterWorlds ==
    { [sites |-> <<>>, links |-> NoLinks, scrape |-> runWebScrape(raw)] : raw \in RawScrape }

InitLimiter ==
    \E w \in LimiterWorlds :
      /\ world = w
      /\ procs = [c \in 1..NumCallers |-> [Proc("caller", 0, NoURL, 0) EXCEPT !.pc = "wait"]]
      /\ visited = <<>>
      /\ wg = 0
      /\ closed = FALSE
      /\ mainPc = "limiter"
      /\ scrapedContent = [u \in {} |-> ""]
      /\ lim = NewLimiter(w.scrape)
      /\ fetches = EmptyBag
      /\ received = EmptyBag
      /\ panicked = ""
      /\ rec = NoRec
      /\ ctx = "live"
      /\ output = NoOutput
      /\ call = NoCall
      /\ app = NoApp

\* half a second passes
LimiterTick ==
    /\ lim.now < MaxTicks
    /\ lim' = [Refilled(lim) EXCEPT !.now = lim.now + 1]
    /\ UNCHANGED <<world, procs, visited, wg, closed, mainPc, scrapedContent,
                   fetches, received, panicked, rec, ctx, output, call, app>>

\* limiter.Wait returns in caller c
Acquire(c) ==
    /\ procs[c].pc = "wait"
    /\ WaitOutcome(lim) = "ok"
    /\ lim' = Granted(lim)
    /\ procs' = [procs EXCEPT ![c].pc = "exit"]
    /\ UNCHANGED <<world, visited, wg, closed, mainPc, scrapedContent,
                   fetches, received, panicked, rec, ctx, output, call, app>>

NextLimiter == LimiterTick \/ \E c \in DOMAIN procs : Acquire(c)

SpecLimiter == InitLimiter /\ [][NextLimiter]_vars

----------------------------------------------------------------------------
(* getOverrides(urlStr, site): the locator and the exclude selectors that  *)
(* apply to one URL.  A selector is a string the model does not look into. *)

\* at most this many path overrides are declared for the site of a call
MaxOverrides == 2

PathOverride(path, loc, excl) == [Path |-> path, CSSLocator |-> loc, ExcludeSelectors |-> excl]

PathX == <<"/", "x">>
PathXY == <<"/", "x", "/", "y">>
PathXYPage == <<"/", "x", "/", "y", "/", "p">>
PathNormal == <<"/", "n">>

\* a site as getOverrides reads it: its own locator and exclusions, and its overrides
OverrideSite(loc, excl, ovs) == [CSSLocator |-> loc, ExcludeSelectors |-> excl, PathOverrides |-> ovs]

Overrides == { PathOverride(p, l, e) : p \in {PathX, PathXY, PathNormal \o PathX},
                                       l \in {"", ".special"},
                                       e \in {<<>>, <<".sidebar">>} }

OverrideLists == UNION { [1..n -> Overrides] : n \in 0..MaxOverrides }

OverrideCalls ==
    { [fn |-> "getOverrides", pc |-> "called", url |-> URL("x", p),
       site |-> OverrideSite(l, e, ovs), before |-> OverrideSite(l, e, ovs),
       locator |-> "", excludes |-> <<>>] :
        p \in {PathX, PathXY, PathXYPage, PathNormal}, l \in {"", "main"},
        e \in {<<>>, <<".ads">>}, ovs \in OverrideLists }

\* the rest of the program is not running
NoCrawl ==
    /\ world = [sites |-> <<>>, links |-> NoLinks,
                scrape |-> runWebScrape([RequestsPerSecond |-> Absent, BurstLimit |-> Absent])]
    /\ procs = <<>>
    /\ visited = <<>>
    /\ wg = 0
    /\ closed = FALSE
    /\ mainPc = "idle"
    /\ scrapedContent = [u \in {} |-> ""]
    /\ lim = NewLimiter(world.scrape)
    /\ fetches = EmptyBag
    /\ received = EmptyBag
    /\ panicked = ""
    /\ rec = NoRec
    /\ ctx = "live"

InitOverrides ==
    /\ NoCrawl
    /\ output = NoOutput
    /\ app = NoApp
    /\ call \in OverrideCalls

\* the slip of an override without exclude selectors inheriting the site's
overrideAtInheriting(site, o) ==
    [locator  |-> IF o.CSSLocator # "" THEN o.CSSLocator ELSE site.CSSLocator,
     excludes |-> IF o.ExcludeSelectors # <<>> THEN o.ExcludeSelectors ELSE site.ExcludeSelectors]

\* the body of the loop for a matching override:
\* if override.CSSLocator != "" { return override.CSSLocator, override.ExcludeSelectors }
\* return site.CSSLocator, override.ExcludeSelectors
overrideAt(site, o) ==
    [locator  |-> IF o.CSSLocator # "" THEN o.CSSLocator ELSE site.CSSLocator,
     excludes |-> o.ExcludeSelectors]

\* for _, override := range site.PathOverrides, from the i-th override on
RECURSIVE getOverridesFrom(_, _, _)
getOverridesFrom(path, site, i) ==
    IF i > Len(site.PathOverrides)
    THEN [locator |-> site.CSSLocator, excludes |-> site.ExcludeSelectors]
    ELSE IF HasPrefix(path, site.PathOverrides[i].Path)
    THEN overrideAt(site, site.PathOverrides[i])
    ELSE getOverridesFrom(path, site, i + 1)

\* the slip of going through the overrides from the last to the first
RECURSIVE getOverridesDownFrom(_, _, _)
getOverridesDownFrom(path, site, i) ==
    IF i < 1
    THEN [locator |-> site.CSSLocator, excludes |-> site.ExcludeSelectors]
    ELSE IF HasPrefix(path, site.PathOverrides[i].Path)
    THEN overrideAt(site, site.PathOverrides[i])
    ELSE getOverridesDownFrom(path, site, i - 1)

getOverridesLastMatch(urlStr, site) == getOverridesDownFrom(urlStr.path, site, Len(site.PathOverrides))

getOverrides(urlStr, site) == getOverridesFrom(urlStr.path, site, 1)

\* cssLocator, excludeSelectors := getOverrides(url, site)
getOverridesCall ==
    /\ call.fn = "getOverrides" /\ call.pc = "called"
    /\ call' = [call EXCEPT !.pc = "returned",
                            !.locator = getOverrides(call.url, call.site).locator,
                            !.excludes = getOverrides(call.url, call.site).excludes]
    /\ UNCHANGED <<world, procs, visited, wg, closed, mainPc, scrapedContent, lim,
                   fetches, received, panicked, rec, ctx, output, app>>

NextOverrides == getOverridesCall

SpecOverrides == InitOverrides /\ [][NextOverrides]_vars

----------------------------------------------------------------------------
(* main: the configuration file is loaded and validated, the browser is    *)
(* started, and the command is executed (PersistentPreRunE, then the       *)
(* command itself).                                                        *)

\* a site of rollup.yml as Validate reads it
ConfigSites == { [BaseURL |-> b, MaxDepth |-> d] : b \in {"", "http://x"}, d \in {-1, 0, 1} }

\* at most this many sites are declared in the rollup.yml of a run
MaxConfigSites == 1

\* the configurations rollup.yml may hold: each rate-limit setting is absent or a number
ConfigFiles ==
    { [FileExtensions |-> ext, RequestsPerSecond |-> rps, BurstLimit |-> burst, Sites |-> sites] :
        ext \in {<<>>, <<".go">>}, rps \in {Absent, 0, 2}, burst \in {Absent, 0, 1},
        sites \in UNION { [1..n -> ConfigSites] : n \in 0..MaxConfigSites } }

\* the first site that Validate rejects from the i-th on: "" when there is none
RECURSIVE ValidateSites(_, _)
ValidateSites(sites, i) ==
    IF i > Len(sites) THEN ""
    ELSE IF sites[i].BaseURL = "" THEN "base_url must be specified for each site"
    ELSE IF sites[i].MaxDepth < 0 THEN "max_depth must be non-negative"
    ELSE ValidateSites(sites, i + 1)

\* (c *Config) Validate(): "" for nil, the message of the error otherwise
Validate(c) ==
    IF Len(c.FileExtensions) = 0 THEN "at least one file extension must be specified"
    ELSE IF c.RequestsPerSecond # Absent /\ c.RequestsPerSecond <= 0
    THEN "requests_per_second must be positive"
    ELSE IF c.BurstLimit # Absent /\ c.BurstLimit <= 0 THEN "burst_limit must be positive"
    ELSE ValidateSites(c.Sites, 1)

\* config.Load(configPath): the error of os.ReadFile or of Validate, "" when the file is good
Load(file) ==
    IF ~file.exists THEN "error reading config file"
    ELSE IF Validate(file.config) # "" THEN "invalid configuration"
    ELSE ""

InitMain ==
    /\ NoCrawl
    /\ output = NoOutput
    /\ call = NoCall
    /\ \E c \in ConfigFiles, e \in BOOLEAN :
         app = [pc |-> "main", file |-> [exists |-> e, config |-> c], cfg |-> "nil",
                warned |-> FALSE, browser |-> FALSE, ran |-> FALSE, status |-> 0]

\* cfg, err = config.Load(configPath); if err != nil { log.Printf("Warning: ...") }
\* and execution continues without a configuration
mainLoad ==
    /\ app.pc = "main"
    /\ app' = [app EXCEPT !.pc = "init",
                          !.cfg = IF Load(app.file) = "" THEN "loaded" ELSE "nil",
                          !.warned = Load(app.file) # ""]
    /\ UNCHANGED <<world, procs, visited, wg, closed, mainPc, scrapedContent, lim,
                   fetches, received, panicked, rec, ctx, output, call>>

\* err = scraper.InitPlaywright(); if err != nil { log.Fatalf(...) }
mainInitPlaywright ==
    /\ app.pc = "init"
    /\ \E ok \in BOOLEAN :
         app' = IF ok THEN [app EXCEPT !.pc = "execute", !.browser = TRUE]
                ELSE [app EXCEPT !.pc = "exited", !.status = 1]
    /\ UNCHANGED <<world, procs, visited, wg, closed, mainPc, scrapedContent, lim,
                   fetches, received, panicked, rec, ctx, output, call>>

\* cmd.Execute(cfg): PersistentPreRunE loads the default configuration file
\* when it exists; an error is returned to main, which prints it and exits with 1
PersistentPreRunE ==
    /\ app.pc = "execute"
    /\ app' = IF app.file.exists /\ Load(app.file) # ""
              THEN [app EXCEPT !.pc = "exited", !.status = 1]
              ELSE [app EXCEPT !.pc = "run",
                               !.cfg = IF app.file.exists THEN "loaded" ELSE app.cfg]
    /\ UNCHANGED <<world, procs, visited, wg, closed, mainPc, scrapedContent, lim,
                   fetches, received, panicked, rec, ctx, output, call>>

\* the command runs: runRollup tests cfg != nil, runWeb reads cfg.Sites, which
\* without a configuration (cfg == nil) ends the process with a nil pointer dereference
runCommand ==
    /\ app.pc = "run"
    /\ \E command \in {"rollup", "web"} :
         app' = IF command = "web" /\ app.cfg = "nil"
                THEN [app EXCEPT !.pc = "exited", !.status = 2]
                ELSE [app EXCEPT !.pc = "exited", !.ran = TRUE]
    /\ UNCHANGED <<world, procs, visited, wg, closed, mainPc, scrapedContent, lim,
                   fetches, received, panicked, rec, ctx, output, call>>

NextMain == mainLoad \/ mainInitPlaywright \/ PersistentPreRunE \/ runCommand

SpecMain == InitMain /\ [][NextMain]_vars

----------------------------------------------------------------------------
(* The normalization at the end of ExtractContentWithCSS.  A text is a     *)
(* sequence of characters; SP, TAB, CR and LF stand for the space, the     *)
(* tab, the carriage return and the line feed.                             *)

\* the longest text a call is tried on
MaxTextLen == 5

TextChars == {"a", "SP", "TAB", "CR", "LF"}

Texts == UNION { [1..n -> TextChars] : n \in 0..MaxTextLen }

\* the characters of the model that strings.TrimSpace removes
WhiteSpace == {"SP", "TAB", "CR", "LF"}

\* s without its longest suffix of characters of cs
RECURSIVE DropWhileEnd(_, _)
DropWhileEnd(s, cs) ==
    IF s # <<>> /\ s[Len(s)] \in cs THEN DropWhileEnd(SubSeq(s, 1, Len(s) - 1), cs) ELSE s

\* strings.TrimSpace(s)
TrimSpace(s) == DropWhileEnd(DropWhile(s, WhiteSpace), WhiteSpace)

\* strings.ReplaceAll(s, "\r\n", "\n")
RECURSIVE ReplaceCRLF(_)
ReplaceCRLF(s) ==
    IF s = <<>> THEN <<>>
    ELSE IF Len(s) >= 2 /\ s[1] = "CR" /\ s[2] = "LF" THEN <<"LF">> \o ReplaceCRLF(SubSeq(s, 3, Len(s)))
    ELSE <<Head(s)>> \o ReplaceCRLF(Tail(s))

\* strings.ReplaceAll(s, "\r", "\n")
ReplaceCR(s) == [i \in DOMAIN s |-> IF s[i] = "CR" THEN "LF" ELSE s[i]]

\* strings.Split(s, "\n"): the lines of s, at least one
RECURSIVE SplitLines(_, _)
SplitLines(s, line) ==
    IF s = <<>> THEN <<line>>
    ELSE IF Head(s) = "LF" THEN <<line>> \o SplitLines(Tail(s), <<>>)
    ELSE SplitLines(Tail(s), Append(line, Head(s)))

\* strings.Join(lines, "\n")
RECURSIVE JoinLines(_)
JoinLines(lines) ==
    IF Len(lines) = 1 THEN lines[1]
    ELSE lines[1] \o <<"LF">> \o JoinLines(Tail(lines))

\* for i, line := range lines { lines[i] = strings.TrimSpace(line) }
TrimLines(s) == LET lines == SplitLines(s, <<>>)
                IN  JoinLines([i \in DOMAIN lines |-> TrimSpace(lines[i])])

\* the slip of unifying the line endings after the lines were trimmed
normalizeLateNewlines(s) ==
    Trim(ReplaceCR(ReplaceCRLF(TrimLines(TrimSpace(s)))), "LF")

\* ExtractContentWithCSS from strings.TrimSpace(selectedContent) to
\* strings.Trim(selectedContent, "\n")
normalize(s) ==
    Trim(TrimLines(ReplaceCR(ReplaceCRLF(TrimSpace(s)))), "LF")

InitNormalize ==
    /\ NoCrawl
    /\ output = NoOutput
    /\ app = NoApp
    /\ \E s \in Texts : call = [fn |-> "normalize", pc |-> "called", input |-> s,
                                once |-> <<>>, twice |-> <<>>]

\* the selected markup is normalized
normalizeCall ==
    /\ call.fn = "normalize" /\ call.pc = "called"
    /\ call' = [call EXCEPT !.pc = "once", !.once = normalize(call.input)]
    /\ UNCHANGED <<world, procs, visited, wg, closed, mainPc, scrapedContent, lim,
                   fetches, received, panicked, rec, ctx, output, app>>

\* what was returned is normalized once more
normalizeAgain ==
    /\ call.fn = "normalize" /\ call.pc = "once"
    /\ call' = [call EXCEPT !.pc = "twice", !.twice = normalize(call.once)]
    /\ UNCHANGED <<world, procs, visited, wg, closed, mainPc, scrapedContent, lim,
                   fetches, received, panicked, rec, ctx, output, app>>

NextNormalize == normalizeCall \/ normalizeAgain

SpecNormalize == InitNormalize /\ [][NextNormalize]_vars

----------------------------------------------------------------------------
(* scrapeURL and ExtractContentWithCSS on a parsed page.  A document is    *)
(* the sequence of its elements in document order; each element names its  *)
(* tag, its class and its parent (0 is the document itself).  The HTML     *)
(* parser gives every document a body.  The content that is returned is    *)
(* the set of elements whose markup it holds.                              *)

Elem(tag, class, parent) == [tag |-> tag, class |-> class, parent |-> parent]

Documents ==
    { \* <body><main><p>ok</p><div class="ads"><span>x</span></div></main><aside></aside></body>
      <<Elem("body", "", 0), Elem("main", "", 1), Elem("p", "", 2), Elem("div", ".ads", 2),
        Elem("span", "", 4), Elem("aside", "", 1)>>,
      \* two main elements, a paragraph inside the advertisement
      <<Elem("body", "", 0), Elem("main", "", 1), Elem("p", "", 2), Elem("div", ".ads", 2),
        Elem("p", "", 4), Elem("main", "", 1), Elem("p", ".ads", 6)>>,
      \* no main element
      <<Elem("body", "", 0), Elem("div", ".ads", 1), Elem("p", "", 2), Elem("p", "", 1)>>,
      \* an advertisement inside an advertisement
      <<Elem("body", "", 0), Elem("main", "", 1), Elem("div", ".ads", 2), Elem("div", ".ads", 3),
        Elem("p", "", 4), Elem("p", "", 2), Elem("span", "", 6)>> }

Locators == {"", "main", "p", ".none", ".ads"}

\* at most this many exclude selectors are handed to a call
MaxExcludes == 2

ExcludeLists == UNION { [1..n -> {".ads", "p", ".none"}] : n \in 0..MaxExcludes }

\* element n matches the selector: a tag name or a class with its dot
Matches(doc, n, sel) == sel # "" /\ (doc[n].tag = sel \/ doc[n].class = sel)

\* element m lies below n (n = 0: the document)
RECURSIVE Below(_, _, _)
Below(doc, m, n) ==
    IF m = 0 THEN FALSE
    ELSE doc[m].parent = n \/ Below(doc, doc[m].parent, n)

\* sel.Find(selector): the elements below an element of sel that match
Find(doc, live, sel, selector) ==
    {m \in live : Matches(doc, m, selector) /\ \E n \in sel : Below(doc, m, n)}

\* sel.Remove(): the elements of the document that are left
Remove(doc, live, sel) == {m \in live : m \notin sel /\ \A n \in sel : ~Below(doc, m, n)}

\* the slip of removing the matching elements and leaving what is inside them
RemoveExcludedShallow(doc, live, selection, excludeSelectors, i) ==
    {m \in live : ~\E j \in DOMAIN excludeSelectors :
                     m \in Find(doc, live, selection, excludeSelectors[j])}

\* for _, excludeSelector := range excludeSelectors { selection.Find(excludeSelector).Remove() }
RECURSIVE RemoveExcluded(_, _, _, _, _)
RemoveExcluded(doc, live, selection, excludeSelectors, i) ==
    IF i > Len(excludeSelectors) THEN live
    ELSE RemoveExcluded(doc, Remove(doc, live, Find(doc, live, selection, excludeSelectors[i])),
                        selection, excludeSelectors, i + 1)

\* the first element of a selection in document order
First(sel) == CHOOSE n \in sel : \A m \in sel : n <= m

\* selection.Html(): the markup inside the first element of the selection
Html(doc, live, sel) == {m \in live : Below(doc, m, First(sel))}

\* doc.Find(includeSelector), or doc.Find("body") when that is empty
Selection(doc, includeSelector) ==
    LET all == DOMAIN doc
        sel == Find(doc, all, {0}, includeSelector)
    IN  IF sel # {} THEN sel ELSE Find(doc, all, {0}, "body")

ExtractContentWithCSS(doc, includeSelector, excludeSelectors) ==
    LET selection == Selection(doc, includeSelector)
    IN  IF selection = {} THEN [content |-> {}, err |-> "no content found in body"]
        ELSE [content |-> Html(doc, RemoveExcluded(doc, DOMAIN doc, selection, excludeSelectors, 1),
                               selection),
              err |-> ""]

\* ProcessHTMLContent: the markup inside the body of the content it is given
ProcessHTMLContent(doc, content) == {m \in content : m \notin Find(doc, DOMAIN doc, {0}, "body")}

\* scrapeURL after FetchWebpageContent has returned the page
scrapeURL(doc, cssLocator, excludeSelectors) ==
    IF cssLocator # ""
    THEN LET r == ExtractContentWithCSS(doc, cssLocator, excludeSelectors)
         IN  IF r.err # "" THEN r
             ELSE [content |-> ProcessHTMLContent(doc, r.content), err |-> ""]
    ELSE [content |-> ProcessHTMLContent(doc, DOMAIN doc), err |-> ""]

InitExtract ==
    /\ NoCrawl
    /\ output = NoOutput
    /\ app = NoApp
    /\ \E d \in Documents, l \in Locators, e \in ExcludeLists :
         call = [fn |-> "extract", pc |-> "called", doc |-> d, locator |-> l, excludes |-> e,
                 content |-> {}, err |-> ""]

\* ExtractContentWithCSS(html, includeSelector, excludeSelectors), called as the tests call it
ExtractContentWithCSSCall ==
    /\ call.fn = "extract" /\ call.pc = "called"
    /\ call' = [call EXCEPT
                  !.pc = "extracted",
                  !.content = ExtractContentWithCSS(call.doc, call.locator, call.excludes).content,
                  !.err = ExtractContentWithCSS(call.doc, call.locator, call.excludes).err]
    /\ UNCHANGED <<world, procs, visited, wg, closed, mainPc, scrapedContent, lim,
                   fetches, received, panicked, rec, ctx, output, app>>

\* content, err := scrapeURL(url, cssLocator, excludeSelectors), for a page that was fetched
scrapeURLCall ==
    /\ call.fn = "extract" /\ call.pc = "called"
    /\ call' = [call EXCEPT
                  !.pc = "scraped",
                  !.content = scrapeURL(call.doc, call.locator, call.excludes).content,
                  !.err = scrapeURL(call.doc, call.locator, call.excludes).err]
    /\ UNCHANGED <<world, procs, visited, wg, closed, mainPc, scrapedContent, lim,
                   fetches, received, panicked, rec, ctx, output, app>>

NextExtract == ExtractContentWithCSSCall \/ scrapeURLCall

SpecExtract == InitExtract /\ [][NextExtract]_vars

----------------------------------------------------------------------------
(* sanitizeFilename and getFilenameFromContent of the web command.  A      *)
(* string is a sequence of tokens: a word of letters, one character, or    *)
(* one of the tags <title> and </title>.                                   *)

\* the tokens of the model that [^a-zA-Z0-9-_] does not match
FileNameChars == {"a", "Hello", "World", "example", "com", "page", "-", "_"}

\* s without its longest prefix of tokens outside keep
RECURSIVE SkipOutside(_, _)
SkipOutside(s, keep) == IF s # <<>> /\ Head(s) \notin keep THEN SkipOutside(Tail(s), keep) ELSE s

\* regexp.MustCompile("[^...]+").ReplaceAllString(s, r), the class being the complement of keep
RECURSIVE ReplaceAllOutside(_, _, _)
ReplaceAllOutside(s, keep, r) ==
    IF s = <<>> THEN <<>>
    ELSE IF Head(s) \notin keep THEN <<r>> \o ReplaceAllOutside(SkipOutside(s, keep), keep, r)
    ELSE <<Head(s)>> \o ReplaceAllOutside(Tail(s), keep, r)

\* the function that replaces every character outside the class on its own
sanitizeEveryCharacter(name) ==
    LET mapped == [i \in DOMAIN name |-> IF name[i] \in FileNameChars THEN name[i] ELSE "_"]
        trimmed == Trim(mapped, "_")
    IN  IF trimmed = <<>> THEN <<"untitled">> ELSE trimmed

sanitizeFilename(name) ==
    LET trimmed == Trim(ReplaceAllOutside(name, FileNameChars, "_"), "_")
    IN  IF trimmed = <<>> THEN <<"untitled">> ELSE trimmed

\* strings.Index(s, tok): the position before the first tok, -1 when there is none
Index(s, tok) ==
    IF \E i \in DOMAIN s : s[i] = tok
    THEN (CHOOSE i \in DOMAIN s : s[i] = tok /\ \A j \in 1..(i - 1) : s[j] # tok) - 1
    ELSE -1

\* url.Parse(urlStr): an error for a string that starts with a colon or
\* has a space in its host; the host runs from the scheme to the first
\* slash; a string without scheme is a path and has no host
Parse(urlStr) ==
    IF urlStr # <<>> /\ Head(urlStr) = ":" THEN [err |-> "missing protocol scheme", Host |-> <<>>, Path |-> <<>>]
    ELSE IF urlStr # <<>> /\ Head(urlStr) = "http://"
    THEN LET rest == Tail(urlStr)
             slash == Index(rest, "/")
             host == IF slash = -1 THEN rest ELSE SubSeq(rest, 1, slash)
             path == IF slash = -1 THEN <<>> ELSE SubSeq(rest, slash + 1, Len(rest))
         IN  IF \E i \in DOMAIN host : host[i] = "SP"
             THEN [err |-> "invalid character in host name", Host |-> <<>>, Path |-> <<>>]
             ELSE [err |-> "", Host |-> host, Path |-> path]
    ELSE [err |-> "", Host |-> <<>>, Path |-> urlStr]

\* strings.TrimSuffix(s, "/")
TrimSuffixSlash(s) == IF s # <<>> /\ s[Len(s)] = "/" THEN SubSeq(s, 1, Len(s) - 1) ELSE s

\* the file name that is derived from the URL
filenameFromURL(urlStr) ==
    LET parsedURL == Parse(urlStr)
    IN  IF parsedURL.err # "" THEN [name |-> <<>>, err |-> "invalid URL"]
        ELSE IF parsedURL.Host = <<>> THEN [name |-> <<>>, err |-> "invalid URL: missing host"]
        ELSE LET filename == IF parsedURL.Path # <<>> /\ parsedURL.Path # <<"/">>
                             THEN parsedURL.Host \o TrimSuffixSlash(parsedURL.Path)
                             ELSE parsedURL.Host
             IN  [name |-> sanitizeFilename(filename) \o <<".rollup.md">>, err |-> ""]

\* the slip of naming the file after a title that is blank
getFilenameFromContentAnyTitle(content, urlStr) ==
    LET titleStart == Index(content, "<title>")
        titleEnd == Index(content, "</title>")
    IN  IF titleStart # -1 /\ titleEnd # -1 /\ titleEnd > titleStart
        THEN [name |-> sanitizeFilename(SubSeq(content, titleStart + 2, titleEnd)) \o <<".rollup.md">>,
              err |-> ""]
        ELSE filenameFromURL(urlStr)

getFilenameFromContent(content, urlStr) ==
    LET titleStart == Index(content, "<title>")
        titleEnd == Index(content, "</title>")
        title == TrimSpace(SubSeq(content, titleStart + 2, titleEnd))
    IN  IF titleStart # -1 /\ titleEnd # -1 /\ titleEnd > titleStart /\ title # <<>>
        THEN [name |-> sanitizeFilename(title) \o <<".rollup.md">>, err |-> ""]
        ELSE filenameFromURL(urlStr)

\* names and contents have up to this many tokens
MaxNameLen == 5

Names == UNION { [1..n -> {"a", "-", "_", "SP", "."}] : n \in 0..MaxNameLen }

Contents == UNION { [1..n -> {"<title>", "</title>", "Hello", "SP", "World"}] : n \in 0..MaxNameLen }

URLStrings ==
    { <<"http://", "example", ".", "com">>,
      <<"http://", "example", ".", "com", "/">>,
      <<"http://", "example", ".", "com", "/", "page">>,
      <<"http://", "example", ".", "com", "/", "page", "/">>,
      <<"http://">>,
      <<"http://", "/", "page">>,
      <<"http://", "example", "SP", "com">>,
      <<"not", "SP", "a", "SP", "valid", "SP", "url">>,
      <<":", "example">> }

InitFileName ==
    /\ NoCrawl
    /\ output = NoOutput
    /\ app = NoApp
    /\ \/ \E n \in Names :
            call = [fn |-> "sanitizeFilename", pc |-> "called", input |-> n, url |-> <<>>,
                    name |-> <<>>, err |-> ""]
       \/ \E c \in Contents, u \in URLStrings :
            call = [fn |-> "getFilenameFromContent", pc |-> "called", input |-> c, url |-> u,
                    name |-> <<>>, err |-> ""]

sanitizeFilenameCall ==
    /\ call.fn = "sanitizeFilename" /\ call.pc = "called"
    /\ call' = [call EXCEPT !.pc = "returned", !.name = sanitizeFilename(call.input)]
    /\ UNCHANGED <<world, procs, visited, wg, closed, mainPc, scrapedContent, lim,
                   fetches, received, panicked, rec, ctx, output, app>>

getFilenameFromContentCall ==
    /\ call.fn = "getFilenameFromContent" /\ call.pc = "called"
    /\ call' = [call EXCEPT !.pc = "returned",
                            !.name = getFilenameFromContent(call.input, call.url).name,
                            !.err = getFilenameFromContent(call.input, call.url).err]
    /\ UNCHANGED <<world, procs, visited, wg, closed, mainPc, scrapedContent, lim,
                   fetches, received, panicked, rec, ctx, output, app>>

NextFileName == sanitizeFilenameCall \/ getFilenameFromContentCall

SpecFileName == InitFileName /\ [][NextFileName]_vars

----------------------------------------------------------------------------
(* isAllowedURL as a function of the URL string and the site: the one of   *)
(* scraper.go and the one of the depth-aware crawl.                        *)

AllowedURLStrings ==
    { <<"http://", "x">>,
      <<"http://", "x", "/", "a">>,
      <<"http://", "x", "/", "a", "/", "b">>,
      <<"http://", "x", "/", "b">>,
      <<"http://", "y", "/", "a">>,
      <<"http://", "y", "/", "b">>,
      <<"/", "a">>,
      <<":", "x", "/", "a">> }

AllowedSites ==
    { Site(BaseX, allowed, exclude, 0, "") :
        allowed \in {<<>>, <<PathA>>, <<PathB, PathA>>, <<PathAB>>},
        exclude \in {<<>>, <<PathAB>>, <<PathA>>, <<PathB, PathAB>>} }

\* the first excluded path of the site that is a prefix of path decides
RECURSIVE excludedFrom(_, _, _)
excludedFrom(path, site, j) ==
    IF j > Len(site.ExcludePaths) THEN FALSE
    ELSE IF HasPrefix(path, site.ExcludePaths[j]) THEN TRUE
    ELSE excludedFrom(path, site, j + 1)

\* for _, allowedPath := range site.AllowedPaths { ... } return false
RECURSIVE allowedFrom(_, _, _)
allowedFrom(path, site, i) ==
    IF i > Len(site.AllowedPaths) THEN FALSE
    ELSE IF HasPrefix(path, site.AllowedPaths[i]) THEN ~excludedFrom(path, site, 1)
    ELSE allowedFrom(path, site, i + 1)

\* isAllowedURL(urlStr, site) of scraper.go
isAllowedURLScraper(urlStr, site) ==
    LET parsedURL == Parse(urlStr)
    IN  IF parsedURL.err # "" THEN FALSE
        ELSE IF parsedURL.Host # <<site.BaseURL.host>> THEN FALSE
        ELSE allowedFrom(parsedURL.Path, site, 1)

\* isAllowedURL(urlStr, site) of the depth-aware crawl
isAllowedURLString(urlStr, site) ==
    LET parsedURL == Parse(urlStr)
    IN  IF parsedURL.err # "" THEN FALSE
        ELSE IF Len(parsedURL.Host) # 1 THEN FALSE
        ELSE isAllowedURL(URL(parsedURL.Host[1], parsedURL.Path), site)

InitAllowed ==
    /\ NoCrawl
    /\ output = NoOutput
    /\ app = NoApp
    /\ \E u \in AllowedURLStrings, site \in AllowedSites :
         call = [fn |-> "isAllowedURL", pc |-> "called", url |-> u, site |-> site, result |-> FALSE]

isAllowedURLCall ==
    /\ call.fn = "isAllowedURL" /\ call.pc = "called"
    /\ call' = [call EXCEPT !.pc = "scraper.go", !.result = isAllowedURLScraper(call.url, call.site)]
    /\ UNCHANGED <<world, procs, visited, wg, closed, mainPc, scrapedContent, lim,
                   fetches, received, panicked, rec, ctx, output, app>>

isAllowedURLCallD ==
    /\ call.fn = "isAllowedURL" /\ call.pc = "called"
    /\ call' = [call EXCEPT !.pc = "depth-aware", !.result = isAllowedURLString(call.url, call.site)]
    /\ UNCHANGED <<world, procs, visited, wg, closed, mainPc, scrapedContent, lim,
                   fetches, received, panicked, rec, ctx, output, app>>

NextAllowed == isAllowedURLCall \/ isAllowedURLCallD

SpecAllowed == InitAllowed /\ [][NextAllowed]_vars

----------------------------------------------------------------------------
(* Properties of the site crawls *)

Sites == 1..NumSites

\* the seed URLs of site s: base URL + each allowed path
SeedURLs(s) == {Concat(world.sites[s].BaseURL, world.sites[s].AllowedPaths[i]) :
                  i \in DOMAIN world.sites[s].AllowedPaths}

\* how often u is listed among the seeds of site s
SeedCount(s, u) ==
    Cardinality({i \in DOMAIN world.sites[s].AllowedPaths :
                   Concat(world.sites[s].BaseURL, world.sites[s].AllowedPaths[i]) = u})

\* how often the fetch capability was called for u in the crawl of site s
FetchCount(s, u) == SumOver(fetches, {e \in DOMAIN fetches : e.site = s /\ e.url = u})

\* how many results for u the collecting loop took from the crawl of site s
ReceivedCount(s, u) == SumOver(received, {e \in DOMAIN received : e.site = s /\ e.url = u})

Running(p) == procs[p].pc # "exit"

\* C1: in a site crawl every URL is handed to the fetch capability at most
\* once, whatever the interleaving of the goroutines
C1_FetchedAtMostOnce ==
    \A e \in DOMAIN fetches : FetchCount(e.site, e.url) <= 1

\* C2: once the results channel is closed no goroutine that runs
\* scrapeSingleURL is still running or about to send
C2_ClosedAfterEveryTask ==
    closed => \A p \in DOMAIN procs : ~Running(p)

\* C3: every fetched URL, seed or discovered link, has the host of the base
\* URL, lies inside an allowed path when any is declared and outside every
\* excluded path
C3_FetchedWithinPolicy ==
    \A e \in DOMAIN fetches : isAllowedURL(e.url, world.sites[e.site])

\* C4: for a site with max depth 0 the links of a page are never walked and
\* only the seed URLs are fetched
C4_DepthZeroFetchesSeedsOnly ==
    /\ \A p \in DOMAIN procs : SiteOf(p).MaxDepth = 0 => procs[p].pc # "links"
    /\ \A e \in DOMAIN fetches :
         world.sites[e.site].MaxDepth = 0 => e.url \in SeedURLs(e.site)

\* C5: a call of scrapeSingleURL that passed the visited and depth checks
\* returns only by handing one result to the results channel
C5_OneResultPerTask ==
    [][\A p \in DOMAIN procs :
          (procs[p].pc \in {"mark", "wait", "fetch", "links", "send"}
             /\ procs'[p].pc \in {"loop", "exit"})
          => BagSize(received') = BagSize(received) + 1]_vars

\* C7: when the collecting loop has ended and ScrapeSites returns, every
\* goroutine that runs scrapeSingleURL has completed; none is left in a fetch
\* or at a send that can no longer be received
C7_ReturnsWithEveryTaskDone ==
    mainPc = "returned" => \A p \in DOMAIN procs : ~Running(p)

\* C9: no result carries a rate-limiter error (no run of the model is cancelled)
C9_NoRateLimiterError ==
    /\ \A e \in DOMAIN received : e.err # "rate"
    /\ \A p \in DOMAIN procs : procs[p].res.err # "rate"

PageLoads == BagSize(fetches) + rec.loads

\* C8: at every point the number of page loads started is at most the
\* number of tokens the limiter has granted
C8_LoadsWithinGrants == PageLoads <= lim.granted

\* C11: once the caller has cancelled, no site goroutine starts its next
\* URL, no fetch starts, a goroutine waiting in limiter.Wait leaves it only
\* with a rate-limiter error, and nothing more is added to the collected content
C11_CancellationStopsTheRun ==
    [][ctx = "cancelled" =>
         /\ BagSize(fetches') = BagSize(fetches)
         /\ scrapedContent' = scrapedContent
         /\ \A p \in DOMAIN procs :
               /\ (procs[p].pc = "loop" => procs'[p].pc \in {"loop", "exit"})
               /\ (procs[p].pc = "wait" /\ procs'[p].pc # "wait" => procs'[p].res.err = "rate")]_vars

\* the URLs the crawl of site s has handed to the fetch capability
FetchedURLs(s) == {e.url : e \in {x \in DOMAIN fetches : x.site = s}}

\* C14: for a site with max depth 0 nothing but base URL + allowed path is
\* ever fetched and none of them twice, and when ScrapeSites returns each of
\* them has been fetched
C14_DepthZeroFetchesExactlyTheSeeds ==
    \A s \in Sites :
       world.sites[s].MaxDepth = 0 =>
          /\ FetchedURLs(s) \subseteq SeedURLs(s)
          /\ \A u \in FetchedURLs(s) : FetchCount(s, u) = 1
          /\ mainPc = "returned" => FetchedURLs(s) = SeedURLs(s)

\* C15: when ScrapeSites returns, a site declared by its base URL alone
\* (no allowed paths, as runWeb builds it from --urls) has had its base URL
\* fetched and a result for it collected, and a site with allowed paths has
\* a result for base URL + each allowed path
C15_BothSeedingForms ==
    mainPc = "returned" =>
      \A s \in Sites :
         IF Len(world.sites[s].AllowedPaths) = 0
         THEN /\ FetchCount(s, world.sites[s].BaseURL) >= 1
              /\ ReceivedCount(s, world.sites[s].BaseURL) >= 1
         ELSE \A u \in SeedURLs(s) : ReceivedCount(s, u) >= 1

\* a URL without one trailing slash of its path
StripTrailingSlash(u) ==
    IF Len(u.path) > 0 /\ u.path[Len(u.path)] = "/"
    THEN URL(u.host, SubSeq(u.path, 1, Len(u.path) - 1))
    ELSE u

\* C16: within one site crawl two URLs that differ only by one trailing
\* slash count as the same URL, so that at most one of them is fetched
C16_TrailingSlashIsOneURL ==
    \A e1, e2 \in DOMAIN fetches :
       (e1.site = e2.site /\ StripTrailingSlash(e1.url) = StripTrailingSlash(e2.url))
       => e1.url = e2.url

----------------------------------------------------------------------------
(* Properties of the write phase *)

\* the characters of the model in the order of their codes
Alphabet == <<"-", ".", "/", "_", "a", "b", "n", "p", "x", "y">>

Rank(c) == CHOOSE i \in DOMAIN Alphabet : Alphabet[i] = c

\* s comes before t in lexicographic order
RECURSIVE SeqLess(_, _)
SeqLess(s, t) ==
    IF t = <<>> THEN FALSE
    ELSE IF s = <<>> THEN TRUE
    ELSE IF Head(s) # Head(t) THEN Rank(Head(s)) < Rank(Head(t))
    ELSE SeqLess(Tail(s), Tail(t))

\* the URL string of u comes before that of v
URLLess(u, v) == SeqLess(<<u.host>> \o u.path, <<v.host>> \o v.path)

\* c occurs in the text t
Occurs(c, t) == \E i \in 1..Len(t) : i + Len(c) - 1 <= Len(t) /\ SubSeq(t, i, i + Len(c) - 1) = c

SupportedTypes == {"single", "separate", ""}

\* C17: the document written in single mode holds the collected URLs, each
\* once, in ascending lexicographic order of URL
C17_SingleFileSortedByURL ==
    (output.pc = "saved" /\ output.type = "single") =>
       LET doc == output.files[<<"combined.md">>]
       IN  /\ {doc[i].url : i \in DOMAIN doc} = DOMAIN scrapedContent
           /\ \A i, j \in DOMAIN doc : i < j => URLLess(doc[i].url, doc[j].url)

\* C18: after the write phase of separate mode the content of every
\* collected URL is in some output file
C18_SeparateFilesKeepEveryResult ==
    (output.pc = "saved" /\ output.type \in {"separate", ""}) =>
       \A u \in DOMAIN scrapedContent :
          \E f \in DOMAIN output.files : Occurs(scrapedContent[u].content, output.files[f])

\* C19: a run that collected the content of at least one URL has written
\* it, and a run in which every URL failed has written no content and
\* returns an error
C19_OutputOrFailureSignal ==
    (mainPc = "returned" /\ output.pc = "saved" /\ output.type \in SupportedTypes) =>
       /\ DOMAIN scrapedContent # {} =>
             \E f \in DOMAIN output.files : output.files[f] # <<>>
       /\ (BagSize(received) > 0 /\ DOMAIN scrapedContent = {}) =>
             /\ \A f \in DOMAIN output.files : output.files[f] = <<>>
             /\ output.err # ""

\* the name the file of an allowed path of a site is to have
ExpectedFileName(site, path) ==
    (IF site.FileNamePrefix = <<>> THEN <<"d", "o", "c">> ELSE site.FileNamePrefix)
    \o <<"-">>
    \o (IF NormalizePathForFilename(path) = <<>> THEN <<"i", "n", "d", "e", "x">>
        ELSE NormalizePathForFilename(path))
    \o <<".md">>

\* C30: in separate mode every file that is written carries the name
\* <prefix>-<normalized allowed path>.md of a site and allowed path a
\* collected URL belongs to, the prefix being the FileNamePrefix of that
\* site, or doc when that is empty, whatever the base URL
C30_SeparateFileNames ==
    (output.pc = "saved" /\ output.type \in {"separate", ""}) =>
       \A f \in DOMAIN output.files :
          \E u \in DOMAIN scrapedContent :
             \E i \in DOMAIN world.sites[scrapedContent[u].site].AllowedPaths :
                /\ HasPrefix(u.path, world.sites[scrapedContent[u].site].AllowedPaths[i])
                /\ f = ExpectedFileName(world.sites[scrapedContent[u].site],
                                        world.sites[scrapedContent[u].site].AllowedPaths[i])

----------------------------------------------------------------------------
(* Properties of main *)

\* the configuration file of the run is one that validation has to reject
FailsValidation ==
    /\ app.file.exists
    /\ \/ app.file.config.FileExtensions = <<>>
       \/ app.file.config.RequestsPerSecond # Absent /\ app.file.config.RequestsPerSecond <= 0
       \/ app.file.config.BurstLimit # Absent /\ app.file.config.BurstLimit <= 0
       \/ \E i \in DOMAIN app.file.config.Sites :
             app.file.config.Sites[i].BaseURL = "" \/ app.file.config.Sites[i].MaxDepth < 0

\* C20: with a configuration that fails validation the browser is never
\* started and no command runs, and the process ends with a failure status
C20_InvalidConfigIsFatal ==
    (app.pc # "" /\ FailsValidation) =>
       /\ ~app.browser
       /\ ~app.ran
       /\ app.pc = "exited" => app.status # 0

----------------------------------------------------------------------------
(* Properties of the extraction *)

\* C21: normalizing a normalized text changes nothing, and a normalized
\* text has no carriage return, no line that starts or ends with white
\* space, and no empty first or last line
C21_NormalizeIdempotent ==
    (call.fn = "normalize" /\ call.pc = "twice") =>
       /\ call.twice = call.once
       /\ \A i \in DOMAIN call.once : call.once[i] # "CR"
       /\ call.once # <<>> => call.once[1] \notin WhiteSpace /\ call.once[Len(call.once)] \notin WhiteSpace

\* a text with both kinds of line ending, an indented line and a trailing
\* blank has been normalized twice
C21_Witness ==
    /\ call.fn = "normalize" /\ call.pc = "twice"
    /\ call.input = <<"a", "CR", "SP", "a", "LF">>
    /\ call.once = <<"a", "LF", "a">>

\* the element whose inner markup is selected: the first one that matches
\* the locator, the body when the locator is blank or matches nothing
Selected ==
    LET ms == {n \in DOMAIN call.doc : Matches(call.doc, n, call.locator)}
    IN  IF ms # {} THEN First(ms) ELSE CHOOSE n \in DOMAIN call.doc : call.doc[n].tag = "body"

\* element m matches one of the exclude selectors of the call
IsExcluded(m) == \E j \in DOMAIN call.excludes : Matches(call.doc, m, call.excludes[j])

\* the elements inside the selected one that are neither excluded nor inside an excluded element
Kept == {m \in DOMAIN call.doc :
           /\ Below(call.doc, m, Selected)
           /\ ~IsExcluded(m)
           /\ \A k \in DOMAIN call.doc :
                 (Below(call.doc, k, Selected) /\ Below(call.doc, m, k)) => ~IsExcluded(k)}

C23_FallbackToBodyAppliesExcludes ==
    (call.fn = "extract" /\ call.pc = "scraped"
       /\ \A n \in DOMAIN call.doc : ~Matches(call.doc, n, call.locator)) =>
       /\ call.err = ""
       /\ call.doc[Selected].tag = "body"
       /\ call.content = Kept

----------------------------------------------------------------------------
(* Properties of the file names of the web command *)

RunsReplaced(s) ==
    LET outside(i) == s[i] \notin FileNameChars
        marked == [i \in DOMAIN s |->
                     IF ~outside(i) THEN s[i]
                     ELSE IF i > 1 /\ outside(i - 1) THEN "" ELSE "_"]
    IN  SelectSeq(marked, LAMBDA c : c # "")

\* s from its first to its last token that is not an underscore
Core(s) ==
    LET solid == {i \in DOMAIN s : s[i] # "_"}
    IN  IF solid = {} THEN <<>>
        ELSE SubSeq(s, CHOOSE i \in solid : \A j \in solid : i <= j,
                       CHOOSE i \in solid : \A j \in solid : i >= j)

TitleOf(content) ==
    LET opens == {i \in DOMAIN content : content[i] = "<title>"}
        closes == {i \in DOMAIN content : content[i] = "</title>"}
    IN  IF opens = {} \/ closes = {} THEN <<>>
        ELSE LET i == CHOOSE k \in opens : \A l \in opens : k <= l
                 j == CHOOSE k \in closes : \A l \in closes : k <= l
             IN  IF j > i THEN TrimSpace(SubSeq(content, i + 1, j - 1)) ELSE <<>>

----------------------------------------------------------------------------
(* Properties of isAllowedURL *)

\* C26: isAllowedURL is true exactly when the URL parses, its host is the
\* host of the base URL of the site, its path starts with an allowed path
\* or the site declares none, and its path starts with no excluded path
C26_AllowedExactly ==
    (call.fn = "isAllowedURL" /\ call.pc # "called") =>
       (call.result <=>
          /\ Parse(call.url).err = ""
          /\ Parse(call.url).Host = <<call.site.BaseURL.host>>
          /\ \/ call.site.AllowedPaths = <<>>
             \/ \E i \in DOMAIN call.site.AllowedPaths :
                  HasPrefix(Parse(call.url).Path, call.site.AllowedPaths[i])
          /\ \A j \in DOMAIN call.site.ExcludePaths :
                  ~HasPrefix(Parse(call.url).Path, call.site.ExcludePaths[j]))

----------------------------------------------------------------------------
(* Properties of scrapeRecursively *)

\* the URLs that are at most k link hops away from the seed
RECURSIVE Reach(_)
Reach(k) ==
    IF k = 0 THEN {world.seed}
    ELSE Reach(k - 1) \cup UNION {{LinksOn(u)[i] : i \in DOMAIN LinksOn(u)} : u \in Reach(k - 1)}

\* the URLs content extraction was called for
ExtractedURLs == {e.url : e \in DOMAIN rec.extracted}

\* how often content extraction was called for u
ExtractionsOf(u) == SumOver(rec.extracted, {e \in DOMAIN rec.extracted : e.url = u})

\* C27: scrapeRecursively calls content extraction at most once for a URL
\* and for no URL that is more than d link hops away from the seed, with
\* d = 0 it never calls link extraction and visits the seed only, and when
\* it has returned the visited set is the set of the URLs extracted
C27_RecursiveCrawlBounded ==
    mainPc = "recursive" =>
       /\ \A u \in ExtractedURLs : ExtractionsOf(u) <= 1 /\ u \in Reach(world.depth)
       /\ world.depth = 0 => rec.linked = {} /\ rec.visited \subseteq {world.seed}
       /\ rec.stack = <<>> => rec.visited = ExtractedURLs

\* a crawl of depth 2 that has returned after it met one page on two paths
C27_Witness ==
    /\ mainPc = "recursive" /\ rec.stack = <<>> /\ world.depth = 2
    /\ LinksOn(UrlA) = <<UrlB, UrlC>> /\ LinksOn(UrlB) = <<UrlC>>
    /\ rec.visited = {UrlA, UrlB, UrlC}
    /\ rec.failed = {}

\* C29: when no call has failed, scrapeRecursively has extracted on its
\* return every URL that is at most d link hops away from the seed
C29_RecursiveCrawlComplete ==
    (mainPc = "recursive" /\ rec.stack = <<>> /\ rec.failed = {}) =>
       Reach(world.depth) \subseteq ExtractedURLs

----------------------------------------------------------------------------
(* Properties of the depth of the site crawl *)

\* the seeds run at depth 0 and a site with a maximal depth of 1 or more
\* has no page fetched below that depth
DepthsWithinBound ==
    /\ \A p \in DOMAIN procs : procs[p].kind = "site" => procs[p].depth = 0
    /\ \A f \in DOMAIN fetches :
         world.sites[f.site].MaxDepth >= 1 => f.depth <= world.sites[f.site].MaxDepth

\* a step that starts a goroutine starts it for the link the walk of some
\* goroutine stands on, for the same site, one level below that goroutine
DispatchOneLevelDown ==
    Len(procs') > Len(procs) =>
       /\ Len(procs') = Len(procs) + 1
       /\ \E p \in DOMAIN procs :
            /\ procs[p].pc = "links"
            /\ procs'[p].li = procs[p].li + 1
            /\ procs'[Len(procs')].kind = "task"
            /\ procs'[Len(procs')].site = procs[p].site
            /\ procs'[Len(procs')].url = resolveURL(LinksOn(procs[p].url)[procs[p].li], procs[p].url)
            /\ procs'[Len(procs')].depth = procs[p].depth + 1

\* C28: in the concurrent crawl of a site with max depth d >= 1 the seeds
\* are processed at depth 0, every discovered link is dispatched at the
\* depth of its parent plus 1, and no URL is fetched at a depth above d
C28_DepthBoundedCrawl == []DepthsWithinBound /\ [][DispatchOneLevelDown]_vars

\* a site of max depth 1: a page was fetched at depth 1 and the goroutine
\* for a link of that page, at depth 2, has returned without a fetch
C28_Witness ==
    \E p \in DOMAIN procs :
       /\ procs[p].kind = "task" /\ procs[p].pc = "exit"
       /\ SiteOf(p).MaxDepth = 1 /\ procs[p].depth = 2
       /\ \E f \in DOMAIN fetches : f.site = procs[p].site /\ f.depth = 1
       /\ \A f \in DOMAIN fetches : f.url # procs[p].url

----------------------------------------------------------------------------
(* Properties of getOverrides *)

\* the overrides of the call whose path is a prefix of the path of the URL
Matching == {i \in DOMAIN call.before.PathOverrides :
               HasPrefix(call.url.path, call.before.PathOverrides[i].Path)}

\* the first of them in declaration order
FirstMatching == CHOOSE i \in Matching : \A j \in Matching : i <= j

\* C12: when some override matches, what getOverrides returns comes from the
\* first matching override in declaration order, not from a later or longer
\* one; with the overrides /x, /x/y a URL path /x/y/p gets those of /x
C12_FirstMatchWins ==
    (call.fn = "getOverrides" /\ call.pc = "returned" /\ Matching # {}) =>
       /\ call.excludes = call.before.PathOverrides[FirstMatching].ExcludeSelectors
       /\ call.locator \in {call.before.PathOverrides[FirstMatching].CSSLocator,
                            call.before.CSSLocator}
       /\ \A j \in Matching :
            (j # FirstMatching
               /\ call.before.PathOverrides[j].ExcludeSelectors
                    # call.before.PathOverrides[FirstMatching].ExcludeSelectors)
            => call.excludes # call.before.PathOverrides[j].ExcludeSelectors

\* the call of the example has returned: /x then /x/y with different
\* locators and exclusions, URL path /x/y/p, and the result is that of /x
C12_Witness ==
    /\ call.fn = "getOverrides" /\ call.pc = "returned"
    /\ call.url.path = PathXYPage
    /\ call.before.PathOverrides = <<PathOverride(PathX, ".special", <<>>),
                                     PathOverride(PathXY, "", <<".sidebar">>)>>
    /\ call.locator = ".special" /\ call.excludes = <<>>

\* C13: a matching override gives its locator when it has one and the
\* site's otherwise, and always its own exclude selectors, also when it has
\* none; without a matching override the site's locator and exclude
\* selectors are returned; the site is as it was before the call
C13_OverrideResult ==
    (call.fn = "getOverrides" /\ call.pc = "returned") =>
       /\ call.site = call.before
       /\ IF Matching = {}
          THEN /\ call.locator = call.before.CSSLocator
               /\ call.excludes = call.before.ExcludeSelectors
          ELSE LET o == call.before.PathOverrides[FirstMatching]
               IN  /\ call.locator = (IF o.CSSLocator = "" THEN call.before.CSSLocator
                                      ELSE o.CSSLocator)
                   /\ call.excludes = o.ExcludeSelectors

\* a call has returned for a site with exclusions where the matching
\* override has neither a locator nor exclusions
C13_Witness ==
    /\ call.fn = "getOverrides" /\ call.pc = "returned"
    /\ Matching # {}
    /\ call.before.CSSLocator = "main" /\ call.before.ExcludeSelectors = <<".ads">>
    /\ call.before.PathOverrides[FirstMatching].CSSLocator = ""
    /\ call.before.PathOverrides[FirstMatching].ExcludeSelectors = <<>>
    /\ call.locator = "main" /\ call.excludes = <<>>

----------------------------------------------------------------------------
(* Properties of the limiter *)

\* C10: the tokens in the bucket never exceed the configured burst; over
\* every interval the acquires that complete are at most burst + rate * t
\* (t in half seconds, both sides doubled); and at 2/s with burst 1 five
\* acquires are not all complete before 2 seconds have passed
C10_TokenBucketBound ==
    /\ lim.tokens2 <= 2 * world.scrape.BurstLimit
    /\ \A i, j \in DOMAIN lim.done :
         i <= j => 2 * (j - i + 1)
                     <= 2 * world.scrape.BurstLimit
                        + world.scrape.RequestsPerSecond * (lim.done[j] - lim.done[i])
    /\ (world.scrape.RequestsPerSecond = 2 /\ world.scrape.BurstLimit = 1 /\ Len(lim.done) >= 5)
         => lim.done[5] >= 4

\* five callers have acquired at 2/s with burst 1 (after the 2 seconds)
C10_Witness ==
    /\ world.scrape.RequestsPerSecond = 2 /\ world.scrape.BurstLimit = 1
    /\ Len(lim.done) = 5
    /\ \A c \in 1..5 : procs[c].pc = "exit"

====
